---- MODULE Spec2Model ----
(***************************************************************************)
(* Model of the patents-topic-modeling dashboard:                          *)
(*   src/s3_utils.py            the remote loaders and their @cache        *)
(*   src/pages/patent_explorer.py   the single-patent explorer page        *)
(*   src/patents_dashboard.py   the aggregate dashboard page               *)
(*                                                                         *)
(* Three specifications share the module:                                  *)
(*   Spec           sessions (threads) rendering pages against the shared  *)
(*                  functools cache of the loaders                         *)
(*   SpecExplorer   one explorer render, top to bottom, over a corpus      *)
(*   SpecDashboard  one dashboard render over a per-topic count table      *)
(* Rows are numbered from 1 here (Python numbers them from 0).             *)
(***************************************************************************)
EXTENDS Integers, Sequences, FiniteSets, TLC

VARIABLES
    \* ---- process state (Spec) ----
    env,          \* os.environ: S3_BUCKET, DATASET_TYPE            (s3_utils.py:23-24)
    cache,        \* the dictionaries of functools.cache: <<f, args, kwds>> -> object
    heap,         \* the objects the loaders returned, by identity: heap[o] is object o
    pc,           \* where each session's script run stands
    page,         \* the page each session renders
    todo,         \* the loader calls the script run has still to make
    objs,         \* the script's local names: loader -> the object it was given
    last,         \* the loader call a session made last, and how it went
    renders,      \* history: script runs started
    \* ---- explorer render (SpecExplorer) ----
    df,                      \* the patent table: rows [patent_number, topic]
    embeddings_normalized,   \* the embedding matrix, by row
    patent_input,            \* st.text_input value
    outcome,                 \* what the render showed: "none", "blank", "not_found", "shown"
    topic_out,               \* the topic block: "none", "no_topic", "words", "no_words"
    topic_words_out,         \* the words shown in the topic block
    get_topic_calls,         \* calls of model.get_topic in the render
    similarities,            \* the array of line 42-43, <<>> when not computed
    top_indices,             \* line 44
    \* ---- dashboard render (SpecDashboard) ----
    df_topics,        \* the cached per-topic count table: rows [topic_id, count]
    topic_status,     \* its column "topic_status", <<>> while the table has none
    df_topics_count,  \* the "top 10 topics" frame of lines 92-94
    df_status,        \* the pie chart's frame of line 126
    dash_rendered     \* whether the dashboard script has run

procVars == <<env, cache, heap, pc, page, todo, objs, last, renders>>
explVars == <<df, embeddings_normalized, patent_input, outcome, topic_out,
              topic_words_out, get_topic_calls, similarities, top_indices>>
dashVars == <<df_topics, topic_status, df_topics_count, df_status, dash_rendered>>
vars == <<procVars, explVars, dashVars>>

\* ------------------------------------------------------------------ bounds
NumSessions == 2
MaxRenders == 2
MaxCopies == 2
MaxTopics == 12

Sessions == 1..NumSessions

\* =====================================================================
\* src/s3_utils.py
\* =====================================================================

\* str.lower on the DATASET_TYPE values the model draws
Lower(s) ==
    CASE s = "SAMPLE" -> "sample"
      [] s = "Full" -> "full"
      [] OTHER -> s

DatasetTypes == {"Full"}
S3_BUCKET == env.S3_BUCKET
DATASET_TYPE == env.DATASET_TYPE
S3_PREFIX == "outputs_" \o Lower(DATASET_TYPE)

\* the artifact name each loader passes as `key`
ArtifactKey(f) ==
    CASE f = "load_model" -> "bertopic_model_dir"
      [] f = "load_embeddings" -> "embeddings_normalized.npy"
      [] f = "load_faiss_index" -> "patent_faiss_normalized_embeddings.index"
      [] f = "load_patent_to_idx" -> "patent_to_idx.pkl"
      [] f = "load_df" -> "df_full.pkl"
      [] f = "load_topics_count_df" -> "df_topics_count.pkl"
      [] f = "load_topics_by_year_df" -> "df_topics_by_year.pkl"

\* s3_path of load_pickle_from_s3 / load_numpy_from_s3 / load_faiss_from_s3
PlainPath(key, prefix) == IF prefix # "" THEN prefix \o "/" \o key ELSE key
\* s3_path of load_bertopic_from_s3
ZipPath(key, prefix) ==
    IF prefix # "" THEN prefix \o "/" \o key \o ".zip" ELSE key \o ".zip"
S3Path(f, prefix) ==
    IF f = "load_model" THEN ZipPath(ArtifactKey(f), prefix)
    ELSE PlainPath(ArtifactKey(f), prefix)

\* the columns of the tables as the pages use them (other artifacts have none)
RemoteCols(f) ==
    CASE f = "load_df" -> {"patent_number", "title", "topic"}
      [] f = "load_topics_count_df" -> {"topic_id", "topic_words", "count"}
      [] f = "load_topics_by_year_df" -> {"topic_id", "topic_words", "year", "count"}
      [] OTHER -> {}

\* A call as written at the call site: positional arguments, then keyword
\* arguments in the order they are written.
Kw(call, name) == {i \in 1..Len(call.kwds) : call.kwds[i][1] = name}
\* Python's binding of the parameters (bucket = S3_BUCKET, prefix = S3_PREFIX)
BoundBucket(call) ==
    IF Len(call.args) >= 1 THEN call.args[1]
    ELSE IF Kw(call, "bucket") # {} THEN call.kwds[CHOOSE i \in Kw(call, "bucket") : TRUE][2]
    ELSE S3_BUCKET
BoundPrefix(call) ==
    IF Len(call.args) >= 2 THEN call.args[2]
    ELSE IF Kw(call, "prefix") # {} THEN call.kwds[CHOOSE i \in Kw(call, "prefix") : TRUE][2]
    ELSE S3_PREFIX
Resolved(call) == <<call.f, BoundBucket(call), BoundPrefix(call)>>

\* functools.cache: one dictionary per decorated loader, keyed by the arguments
\* as passed (positional tuple, then the keyword items in call order)
MakeKey(call) == <<call.f, call.args, call.kwds>>

\* the object a successful load_*_from_s3 returns
LoadResult(call) ==
    [f |-> call.f, key |-> MakeKey(call),
     bucket |-> BoundBucket(call), prefix |-> BoundPrefix(call),
     path |-> S3Path(call.f, BoundPrefix(call)),
     cols |-> RemoteCols(call.f)]

\* objects already handed out under the same cache key / for the same bound values
PriorByKey(call) == {o \in DOMAIN heap : heap[o].key = MakeKey(call)}
PriorByValue(call) ==
    {o \in DOMAIN heap : <<heap[o].f, heap[o].bucket, heap[o].prefix>> = Resolved(call)}

\* The identity of the object a fetch creates: the n-th object made for its key
NewObject(call) == <<MakeKey(call), Cardinality(PriorByKey(call)) + 1>>
NoObject == <<"none", 0>>

\* The record of a session's latest loader call: what had been handed out when
\* the call began, and how the call went.  `retry` says that the session's
\* previous call failed on the same cache key.
NoCall == [made |-> FALSE]
CallRecord(s, call, result, attempts, ok) ==
    [made |-> TRUE, call |-> call, key |-> MakeKey(call),
     priorKey |-> PriorByKey(call), priorValue |-> PriorByValue(call),
     retry |-> (last[s].made /\ ~last[s].ok /\ last[s].key = MakeKey(call)),
     result |-> result, attempts |-> attempts, ok |-> ok]

\* =====================================================================
\* the pages' loader calls
\* =====================================================================
CallOf(f, args, kwds) == [f |-> f, args |-> args, kwds |-> kwds]

\* patent_explorer.py:12, evaluated left to right
ExplorerCalls ==
    << CallOf("load_df", <<>>, << <<"prefix", "outputs_sample">> >>),
       CallOf("load_embeddings", <<>>, << <<"prefix", "outputs_sample">> >>),
       CallOf("load_patent_to_idx", <<>>, << <<"prefix", "outputs_sample">> >>),
       CallOf("load_model", <<>>, << <<"prefix", "outputs_sample">> >>) >>
\* patents_dashboard.py:32-33
DashboardCalls ==
    << CallOf("load_topics_by_year_df", <<>>, <<>>),
       CallOf("load_topics_count_df", <<>>, <<>>) >>

\* Any other caller of the loaders: the ways Python lets (bucket, prefix) be
\* passed (defaults, positionally, by keyword in either order), besides the
\* explorer's own prefix=... form
Buckets == {"patents"}
Prefixes == {"outputs_sample"}
CallForms ==
    {[args |-> <<>>, kwds |-> <<>>]}
    \cup {[args |-> <<b, p>>, kwds |-> <<>>] : b \in Buckets, p \in Prefixes}
    \cup {[args |-> <<>>, kwds |-> << <<"bucket", b>>, <<"prefix", p>> >>] :
              b \in Buckets, p \in Prefixes}
    \cup {[args |-> <<>>, kwds |-> << <<"prefix", p>>, <<"bucket", b>> >>] :
              b \in Buckets, p \in Prefixes}
ApiLoaders == {"load_df"}
ApiCalls == {CallOf(f, c.args, c.kwds) : f \in ApiLoaders, c \in CallForms}

Pages == {"explorer", "dashboard", "api"}
PageCalls(p, c) ==
    CASE p = "explorer" -> ExplorerCalls
      [] p = "dashboard" -> DashboardCalls
      [] p = "api" -> <<c>>

\* =====================================================================
\* Spec: sessions rendering against the shared cache
\* =====================================================================
InitExplorerIdle ==
    /\ df = <<>> /\ embeddings_normalized = <<>> /\ patent_input = ""
    /\ outcome = "none" /\ topic_out = "none" /\ topic_words_out = <<>>
    /\ get_topic_calls = 0 /\ similarities = <<>> /\ top_indices = <<>>
InitDashIdle ==
    /\ df_topics = <<>> /\ topic_status = <<>>
    /\ df_topics_count = <<>> /\ df_status = <<>>
    /\ dash_rendered = FALSE
InitProcIdle ==
    /\ env = [S3_BUCKET |-> "patents", DATASET_TYPE |-> "Full"]
    /\ cache = <<>> /\ heap = <<>>
    /\ pc = [s \in Sessions |-> "idle"]
    /\ page = [s \in Sessions |-> "none"]
    /\ todo = [s \in Sessions |-> <<>>]
    /\ objs = [s \in Sessions |-> <<>>]
    /\ last = [s \in Sessions |-> NoCall]
    /\ renders = 0

Init ==
    /\ env \in [S3_BUCKET : Buckets, DATASET_TYPE : DatasetTypes]
    /\ cache = <<>>
    /\ heap = <<>>
    /\ pc = [s \in Sessions |-> "idle"]
    /\ page = [s \in Sessions |-> "none"]
    /\ todo = [s \in Sessions |-> <<>>]
    /\ objs = [s \in Sessions |-> <<>>]
    /\ last = [s \in Sessions |-> NoCall]
    /\ renders = 0
    /\ InitExplorerIdle
    /\ InitDashIdle

\* A session starts a script run (a page request, or a rerun after input).
StartRender(s, p, c) ==
    /\ pc[s] \in {"idle", "aborted"}
    /\ renders < MaxRenders
    /\ renders' = renders + 1
    /\ page' = [page EXCEPT ![s] = p]
    /\ todo' = [todo EXCEPT ![s] = PageCalls(p, c)]
    /\ objs' = [objs EXCEPT ![s] = <<>>]
    /\ pc' = [pc EXCEPT ![s] = "call"]
    /\ UNCHANGED <<env, cache, heap, last>>

\* the script's position after a loader call has returned
AfterReturn(s) == IF Len(todo[s]) > 1 THEN "call" ELSE "body"

\* faulty variant of CacheHas: the wrapper never finds an entry
CacheHasNever(k) == FALSE
\* the wrapper's lookup of the key in the loader's dictionary
CacheHas(k) == k \in DOMAIN cache

\* the wrapper finds the key: the cached object is returned, nothing is fetched
CacheHit(s) ==
    /\ pc[s] = "call"
    /\ LET call == Head(todo[s])
           k == MakeKey(call)
       IN /\ CacheHas(k)
          /\ last' = [last EXCEPT ![s] = CallRecord(s, call, cache[k], 0, TRUE)]
          /\ objs' = [objs EXCEPT ![s] = (call.f :> cache[k]) @@ @]
    /\ todo' = [todo EXCEPT ![s] = Tail(@)]
    /\ pc' = [pc EXCEPT ![s] = AfterReturn(s)]
    /\ UNCHANGED <<env, cache, heap, page, renders>>

\* the wrapper misses: the loader body runs, and get_object is under way
CacheMiss(s) ==
    /\ pc[s] = "call"
    /\ LET call == Head(todo[s])
       IN /\ ~CacheHas(MakeKey(call))
          /\ last' = [last EXCEPT ![s] = CallRecord(s, call, NoObject, 0, FALSE)]
    /\ pc' = [pc EXCEPT ![s] = "fetch"]
    /\ UNCHANGED <<env, cache, heap, page, todo, objs, renders>>

\* faulty variant of StoreResult: the result is returned but not remembered
StoreNothing(k, o) == cache
\* cache[key] = result (an entry another thread stored meanwhile is overwritten)
StoreResult(k, o) == (k :> o) @@ cache

\* get_object and the deserialization succeed: a new object, stored and returned
FetchOk(s) ==
    /\ pc[s] = "fetch"
    /\ LET call == Head(todo[s])
           o == NewObject(call)
       IN /\ heap' = (o :> LoadResult(call)) @@ heap
          /\ cache' = StoreResult(MakeKey(call), o)
          /\ last' = [last EXCEPT ![s] = [@ EXCEPT !.result = o, !.attempts = @ + 1,
                                                    !.ok = TRUE]]
          /\ objs' = [objs EXCEPT ![s] = (call.f :> o) @@ @]
    /\ todo' = [todo EXCEPT ![s] = Tail(@)]
    /\ pc' = [pc EXCEPT ![s] = AfterReturn(s)]
    /\ UNCHANGED <<env, page, renders>>

\* faulty variant of FetchFail: the failure is remembered as the key's entry
\* (NoObject stands for the error) and the script goes on
FetchFailCached(s) ==
    /\ pc[s] = "fetch"
    /\ cache' = (MakeKey(Head(todo[s])) :> NoObject) @@ cache
    /\ last' = [last EXCEPT ![s] = [@ EXCEPT !.attempts = @ + 1]]
    /\ pc' = [pc EXCEPT ![s] = "aborted"]
    /\ todo' = [todo EXCEPT ![s] = <<>>]
    /\ objs' = [objs EXCEPT ![s] = <<>>]
    /\ page' = [page EXCEPT ![s] = "none"]
    /\ UNCHANGED <<env, heap, renders>>
\* get_object or the deserialization raises: logged and re-raised (lines 73-75,
\* 98-100, 127-129, 171-173), through the wrapper, which stores nothing, and
\* through the page script, which catches nothing
FetchFail(s) ==
    /\ pc[s] = "fetch"
    /\ last' = [last EXCEPT ![s] = [@ EXCEPT !.attempts = @ + 1]]
    /\ pc' = [pc EXCEPT ![s] = "aborted"]
    /\ todo' = [todo EXCEPT ![s] = <<>>]
    /\ objs' = [objs EXCEPT ![s] = <<>>]
    /\ page' = [page EXCEPT ![s] = "none"]
    /\ UNCHANGED <<env, cache, heap, renders>>

\* What the rest of a page script does to the objects it was given.
\* explorer: reads only (cosine_similarity returns a new array, and line 43
\* writes into that array).  dashboard: lines 92-94 work on a copy; line 125
\* assigns the column "topic_status" on df_topics itself.
BodyHeap(s) ==
    IF page[s] = "dashboard"
    THEN [heap EXCEPT ![objs[s]["load_topics_count_df"]].cols = @ \cup {"topic_status"}]
    ELSE heap

\* the script runs to its end; its local names are gone, the session is idle
Body(s) ==
    /\ pc[s] = "body"
    /\ heap' = BodyHeap(s)
    /\ pc' = [pc EXCEPT ![s] = "idle"]
    /\ objs' = [objs EXCEPT ![s] = <<>>]
    /\ last' = [last EXCEPT ![s] = NoCall]
    /\ page' = [page EXCEPT ![s] = "none"]
    /\ UNCHANGED <<env, cache, todo, renders>>

Others == UNCHANGED <<explVars, dashVars>>

Next ==
    \/ \E s \in Sessions, p \in Pages \ {"api"} : StartRender(s, p, NoCall) /\ Others
    \/ \E s \in Sessions, c \in ApiCalls : StartRender(s, "api", c) /\ Others
    \/ \E s \in Sessions : CacheHit(s) /\ Others
    \/ \E s \in Sessions : CacheMiss(s) /\ Others
    \/ \E s \in Sessions : FetchOk(s) /\ Others
    \/ \E s \in Sessions : FetchFail(s) /\ Others
    \/ \E s \in Sessions : Body(s) /\ Others

Spec == Init /\ [][Next]_vars

\* ---------------------------------------------------------------------
\* Claims about the loaders and their cache (checked under Spec)
\* ---------------------------------------------------------------------
Returned(s) == last[s].made /\ last[s].ok

\* C2 as stated: once a loader call has returned, a later call of the same
\* loader whose bound (bucket, prefix) are the same, in whatever form the
\* arguments are written, returns that same object and fetches nothing.
C2_SameValuesSameObject ==
    \A s \in Sessions :
        (Returned(s) /\ last[s].priorValue # {}) =>
            /\ last[s].priorValue = {last[s].result}
            /\ last[s].attempts = 0

\* C2 amended: once a loader call has returned, a later call of the same loader
\* written in the same form (the same positional values, the same keyword names
\* and values in the same order) fetches nothing and returns the object cached
\* under that key, an object already returned for that key with the content of
\* the same remote artifact.
C2_SameCallFormHits ==
    \A s \in Sessions :
        (Returned(s) /\ last[s].priorKey # {}) =>
            /\ last[s].attempts = 0
            /\ last[s].result \in last[s].priorKey
            /\ \A o \in last[s].priorKey : heap[o].path = heap[last[s].result].path

\* a later call in the same form has returned from the cache
C2_Witness ==
    \E s \in Sessions :
        /\ Returned(s) /\ last[s].priorKey # {}
        /\ last[s].attempts = 0
        /\ last[s].call.kwds # <<>>

\* C3 as stated: each (loader, bucket, prefix) is fetched from the remote store
\* at most once in the life of the process (every object of the heap is one
\* completed fetch).
C3_OneFetchPerKey ==
    \A o1, o2 \in DOMAIN heap :
        <<heap[o1].f, heap[o1].bucket, heap[o1].prefix>>
            = <<heap[o2].f, heap[o2].bucket, heap[o2].prefix>> => o1 = o2

FetchesOf(k) == {o \in DOMAIN heap : heap[o].key = k}
StartsFetch(s) == pc[s] # "fetch" /\ pc'[s] = "fetch"

\* C3 amended: a fetch for a cache key (loader, positional arguments, keyword
\* arguments as written) starts only while no entry is stored under that key;
\* so calls that do not overlap fetch it at most once successfully, and only
\* calls that missed before the first store can fetch it again.
C3_FetchOnlyOnMiss ==
    [][\A s \in Sessions :
          StartsFetch(s) => MakeKey(Head(todo[s])) \notin DOMAIN cache]_vars

\* two sessions missed on the same key and are both fetching it
C3_Witness ==
    \E s1, s2 \in Sessions :
        /\ s1 # s2
        /\ pc[s1] = "fetch" /\ pc[s2] = "fetch"
        /\ MakeKey(Head(todo[s1])) = MakeKey(Head(todo[s2]))

\* C4 as stated: every object the cache holds has the content it was loaded
\* with, whatever renders have run.
C4_CachedArtifactsUnchanged ==
    \A k \in DOMAIN cache :
        heap[cache[k]] = [heap[cache[k]] EXCEPT !.cols = RemoteCols(heap[cache[k]].f)]

FailsFetch(s) == pc[s] = "fetch" /\ pc'[s] = "aborted"

\* C10: a failing fetch is the call's only attempt, aborts the script run that
\* made the call (nothing more of it runs) and leaves the cache as it was; no
\* entry stands for a failure, so a later call with the same arguments that
\* finds no entry fetches again.
C10_FailurePropagates ==
    /\ [](/\ \A k \in DOMAIN cache : cache[k] \in FetchesOf(k)
          /\ \A s \in Sessions :
                pc[s] = "aborted" =>
                    /\ last[s].made /\ ~last[s].ok /\ last[s].attempts = 1
                    /\ todo[s] = <<>>)
    /\ [][\A s \in Sessions :
             /\ FailsFetch(s) => cache' = cache /\ heap' = heap
             /\ (pc[s] = "call" /\ last[s].made /\ ~last[s].ok
                   /\ last'[s] # last[s]
                   /\ last[s].key \notin DOMAIN cache
                   /\ last'[s].key = last[s].key) => pc'[s] = "fetch"]_vars

\* after a failed call, the session's next call with the same arguments is
\* fetching again
C10_Witness ==
    \E s \in Sessions :
        /\ pc[s] = "fetch" /\ last[s].retry
        /\ last[s].key \notin DOMAIN cache

\* =====================================================================
\* src/pages/patent_explorer.py: one render of the explorer
\* =====================================================================
\* Similarities are fixed-point: One stands for 1.0, and the rows of the
\* embedding matrix have length 5, so that a dot product of two rows is their
\* cosine in units of 1/25.
One == 5 * 5
UnitVectors == << <<5, 0>>, <<4, 3>>, <<0, 5>>, <<-5, 0>> >>

Dot(a, b) == a[1] * b[1] + a[2] * b[2]
Norm(a) == CHOOSE r \in 0..One : r * r = Dot(a, a)
\* sklearn's cosine_similarity of one row against every row of the matrix
CosineSimilarity(q, X) ==
    [i \in 1..Len(X) |-> (Dot(q, X[i]) * One) \div (Norm(q) * Norm(X[i]))]

TOPIC_NONE == -1
SELF_SIMILARITY == -1 * One
TOP_K == 5
TOP_WORDS == 5

PatentNumber(i) == ToString(9713126 + i)
\* the topic column of the corpus: every third row has no topic, every third a
\* topic the model has words for, every third a topic it has none for
TopicOfRow(i) == (i % 3) - 1
\* the identifier -> row map, in lockstep with the table
patent_to_idx == [n \in {df[i].patent_number : i \in 1..Len(df)} |->
                     CHOOSE i \in 1..Len(df) : df[i].patent_number = n]

\* BERTopic.get_topic: the (word, weight) pairs of a topic, weights in 1/1000;
\* <<>> stands for the False it returns for a topic it does not know
GetTopic(t) ==
    IF t = 0
    THEN << <<"signal", 30>>, <<"antenna", 55>>, <<"wireless", 55>>,
            <<"channel", 12>>, <<"device", 41>>, <<"network", 20>> >>
    ELSE <<>>

RECURSIVE SortedByWeightDesc(_)
\* sorted(topic_words, key=lambda x: x[1], reverse=True): stable, so equal
\* weights keep their order
SortedByWeightDesc(ws) ==
    IF ws = <<>> THEN <<>>
    ELSE LET m == CHOOSE i \in 1..Len(ws) :
                      /\ \A j \in 1..Len(ws) : ws[j][2] <= ws[i][2]
                      /\ \A j \in 1..(i - 1) : ws[j][2] < ws[i][2]
         IN <<ws[m]>> \o SortedByWeightDesc(
                SubSeq(ws, 1, m - 1) \o SubSeq(ws, m + 1, Len(ws)))
Prefix(q, n) == SubSeq(q, 1, IF Len(q) < n THEN Len(q) ELSE n)
TopWords(ws) == [i \in 1..Len(Prefix(ws, TOP_WORDS)) |-> SortedByWeightDesc(ws)[i][1]]

\* faulty variant of IsNoTopic: the sentinel is taken to be 0
IsNoTopicZero(t) == t = 0
\* line 27
IsNoTopic(t) == t = TOPIC_NONE

\* faulty variant of Branch: the membership test of line 18 is missing
BranchUnchecked(x) == IF x = "" THEN "blank" ELSE "found"
\* lines 17-20: which block of the script runs
Branch(x) ==
    IF x = "" THEN "blank"
    ELSE IF x \notin DOMAIN patent_to_idx THEN "not_found"
    ELSE "found"

Maxima(sim, S) == {i \in S : \A j \in S : sim[j] <= sim[i]}
Minima(sim, S) == {i \in S : \A j \in S : sim[i] <= sim[j]}
RECURSIVE ArgSortFirst(_, _, _)
\* faulty variant of ArgSortLast: the slice is taken from the front, argsort()[:k]
ArgSortFirst(sim, S, k) ==
    IF k = 0 \/ S = {} THEN {<<>>}
    ELSE UNION {{<<m>> \o t : t \in ArgSortFirst(sim, S \ {m}, k - 1)} :
                    m \in Minima(sim, S)}
RECURSIVE ArgSortLast(_, _, _)
\* similarities.argsort()[-k:] over the rows S: the values the slice can take.
\* numpy's default sort is not stable: the rows come by ascending similarity,
\* rows of equal similarity in any order.
ArgSortLast(sim, S, k) ==
    IF k = 0 \/ S = {} THEN {<<>>}
    ELSE UNION {{t \o <<m>> : t \in ArgSortLast(sim, S \ {m}, k - 1)} :
                    m \in Maxima(sim, S)}

Reverse(q) == [i \in 1..Len(q) |-> q[Len(q) + 1 - i]]
\* faulty variant of TopIndices: the slice is not reversed
TopIndicesAscending(slice) == slice
\* line 44: the [::-1] of argsort()[-5:][::-1]
TopIndices(slice) == Reverse(slice)

\* line 43: similarities[idx] = -1
Overwrite(sim, idx) == [sim EXCEPT ![idx] = SELF_SIMILARITY]

\* The corpora: up to MaxCopies rows of each unit vector.  Rows of the same
\* vector are adjacent, in the order of UnitVectors or in the reverse order;
\* the order of the rows enters the computation only through the row numbers.
\* The topic column starts anywhere in its cycle.
Rep(v, n) == [i \in 1..n |-> v]
Embeddings(c) ==
    Rep(UnitVectors[1], c[1]) \o Rep(UnitVectors[2], c[2])
        \o Rep(UnitVectors[3], c[3]) \o Rep(UnitVectors[4], c[4])
Table(n, off) ==
    [i \in 1..n |-> [patent_number |-> PatentNumber(i), topic |-> TopicOfRow(i + off)]]
Corpora ==
    {[df |-> Table(Len(Embeddings(c)), off),
      emb |-> IF rev THEN Reverse(Embeddings(c)) ELSE Embeddings(c)] :
         c \in {d \in [1..4 -> 0..MaxCopies] : \E v \in 1..4 : d[v] > 0},
         off \in 0..2, rev \in BOOLEAN}
\* what a user can type: a number of the corpus, one that is not, or nothing
Inputs == {PatentNumber(i) : i \in 1..(4 * MaxCopies)} \cup {"1", ""}

InitExplorer ==
    /\ \E c \in Corpora : df = c.df /\ embeddings_normalized = c.emb
    /\ patent_input = ""
    /\ outcome = "none" /\ topic_out = "none" /\ topic_words_out = <<>>
    /\ get_topic_calls = 0 /\ similarities = <<>> /\ top_indices = <<>>
    /\ InitProcIdle
    /\ InitDashIdle

\* One run of the script on the input x, from line 14 to the end, on an empty page.
\* A key missing from the map at line 21 raises (outcome "error").
Render(x) ==
    /\ outcome = "none"
    /\ patent_input' = x
    /\ LET b == Branch(x)
       IN IF b # "found" \/ x \notin DOMAIN patent_to_idx
          THEN /\ outcome' = (IF b = "found" THEN "error" ELSE b)
               /\ topic_out' = "none" /\ topic_words_out' = <<>>
               /\ get_topic_calls' = 0
               /\ similarities' = <<>> /\ top_indices' = <<>>
          ELSE LET idx == patent_to_idx[x]
                   topic_id == df[idx].topic
                   topic_words == GetTopic(topic_id)
                   sim == Overwrite(
                              CosineSimilarity(embeddings_normalized[idx],
                                               embeddings_normalized), idx)
               IN /\ outcome' = "shown"
                  /\ IF IsNoTopic(topic_id)
                     THEN /\ topic_out' = "no_topic"
                          /\ topic_words_out' = <<>>
                          /\ get_topic_calls' = 0
                     ELSE /\ get_topic_calls' = 1
                          /\ topic_out' = (IF topic_words # <<>> THEN "words"
                                           ELSE "no_words")
                          /\ topic_words_out' = TopWords(topic_words)
                  /\ similarities' = sim
                  /\ \E slice \in ArgSortLast(sim, DOMAIN sim, TOP_K) :
                         top_indices' = TopIndices(slice)
    /\ UNCHANGED <<df, embeddings_normalized, procVars, dashVars>>

\* Streamlit reruns the script when the input changes: the page is emptied and
\* nothing of the last run is kept.
Rerun ==
    /\ outcome # "none"
    /\ patent_input' = ""
    /\ outcome' = "none" /\ topic_out' = "none" /\ topic_words_out' = <<>>
    /\ get_topic_calls' = 0 /\ similarities' = <<>> /\ top_indices' = <<>>
    /\ UNCHANGED <<df, embeddings_normalized, procVars, dashVars>>

NextExplorer ==
    \/ \E x \in Inputs : Render(x)
    \/ Rerun

SpecExplorer == InitExplorer /\ [][NextExplorer]_vars

\* ---------------------------------------------------------------------
\* Claims about the explorer (checked under SpecExplorer)
\* ---------------------------------------------------------------------
Rows == Len(df)
Known == patent_input \in DOMAIN patent_to_idx
Query == patent_to_idx[patent_input]
Listed == {top_indices[i] : i \in 1..Len(top_indices)}

\* C1 as stated: for a patent of the index map the neighbor list has exactly
\* 5 entries when the corpus has at least 6 rows, fewer than 5 only when it has
\* fewer than 6, and never holds the query's own row.
C1_FiveNeighborsNoSelf ==
    (outcome = "shown" /\ Known) =>
        /\ Rows >= 6 => Len(top_indices) = 5
        /\ Len(top_indices) < 5 => Rows < 6
        /\ Query \notin Listed

\* C5 as stated: an input that is no key of the index map ends in the
\* not-found message, with no topic query and no similarity computed.
C5_AbsentIsNotFound ==
    (outcome # "none" /\ ~Known) =>
        /\ outcome = "not_found"
        /\ get_topic_calls = 0 /\ similarities = <<>> /\ top_indices = <<>>

\* C5 amended: a non-empty input that is no key of the index map ends in the
\* not-found message (an empty input shows nothing at all); in both cases
\* there is no topic query and no similarity computed.
C5_NonEmptyAbsentIsNotFound ==
    (outcome # "none" /\ ~Known) =>
        /\ patent_input # "" => outcome = "not_found"
        /\ patent_input = "" => outcome = "blank"
        /\ get_topic_calls = 0 /\ similarities = <<>> /\ top_indices = <<>>
        /\ topic_out = "none"

\* a render of an input that is not empty and not in the map
C5_Witness == outcome = "not_found" /\ patent_input = "1" /\ Rows >= 2

\* C6: the neighbor list is in descending order of the similarities shown
\* with it.
C6_DescendingSimilarity ==
    outcome = "shown" =>
        \A i, j \in 1..Len(top_indices) :
            i < j => similarities[top_indices[i]] >= similarities[top_indices[j]]

\* a list of 5 with at least two different scores in it
C6_Witness ==
    /\ outcome = "shown" /\ Len(top_indices) = 5
    /\ similarities[top_indices[1]] > similarities[top_indices[5]]
    /\ similarities[top_indices[5]] > SELF_SIMILARITY

\* C7: for a patent whose topic is the sentinel -1 the explorer shows the
\* "no topic" message, no topic words, and does not call get_topic.
C7_SentinelShowsNoTopic ==
    (outcome = "shown" /\ Known /\ df[Query].topic = -1) =>
        /\ topic_out = "no_topic"
        /\ topic_words_out = <<>>
        /\ get_topic_calls = 0

\* renders of a patent without topic, and of patents with one
C7_Witness ==
    /\ outcome = "shown" /\ Known /\ df[Query].topic = -1
    /\ topic_out = "no_topic"

Tied(i, j) == similarities[i] = similarities[j]

\* C9 as stated: among rows of equal similarity the lower row index is
\* selected first and listed first.
C9_TiesByRowOrder ==
    outcome = "shown" =>
        /\ \A i, j \in 1..Len(top_indices) :
               (i < j /\ Tied(top_indices[i], top_indices[j]))
                   => top_indices[i] < top_indices[j]
        /\ \A r \in Listed, q \in (1..Rows) \ Listed : Tied(r, q) => r < q

\* C9 amended: ties are broken in no particular row order; the selection
\* is a top-5 all the same: no row left out has a higher similarity than a
\* listed one, and all rows are listed when there are 5 or fewer.
C9_TopKWhateverTheTies ==
    outcome = "shown" =>
        /\ \A r \in Listed, q \in (1..Rows) \ Listed :
               similarities[q] <= similarities[r]
        /\ Cardinality(Listed) = Len(top_indices)
        /\ Len(top_indices) = (IF Rows < 5 THEN Rows ELSE 5)

\* a row left out ties with a listed row of a lower index, and one of a higher
C9_Witness ==
    /\ outcome = "shown"
    /\ \E r \in Listed, q \in (1..Rows) \ Listed : Tied(r, q) /\ r < q /\ q # Query

\* =====================================================================
\* src/patents_dashboard.py: the high-level statistics of one render
\* =====================================================================
TOP_N == 10
Counts == {1, 2}

\* The per-topic count tables: up to MaxTopics rows, at most one of them the
\* no-topic row (topic_id -1), anywhere in the table; the other topic ids
\* are distinct.  The column topic_words is only displayed and is left out.
TopicTable(n, c, sp) ==
    [i \in 1..n |-> [topic_id |-> IF i = sp THEN TOPIC_NONE ELSE i - 1, count |-> c[i]]]

SelectSeq2(q, keep) ==
    LET F[i \in 0..Len(q)] ==
            IF i = 0 THEN <<>>
            ELSE IF keep[i] THEN Append(F[i - 1], q[i]) ELSE F[i - 1]
    IN F[Len(q)]

\* line 93: .loc[topic_id != -1]
DropNoTopic(rows) == SelectSeq2(rows, [i \in 1..Len(rows) |-> rows[i].topic_id # -1])

\* faulty variant of NLargest: the first n rows as they stand (head)
NFirst(n, rows) == SubSeq(rows, 1, IF Len(rows) < n THEN Len(rows) ELSE n)
RECURSIVE NLargest(_, _)
\* line 94: DataFrame.nlargest(n, 'count') (keep='first'): the n rows of the
\* highest count, in descending order of count, the earlier row first among
\* rows of equal count
NLargest(n, rows) ==
    IF n = 0 \/ rows = <<>> THEN <<>>
    ELSE LET m == CHOOSE i \in 1..Len(rows) :
                      /\ \A j \in 1..Len(rows) : rows[j].count <= rows[i].count
                      /\ \A j \in 1..(i - 1) : rows[j].count < rows[i].count
         IN <<rows[m]>> \o NLargest(n - 1,
                SubSeq(rows, 1, m - 1) \o SubSeq(rows, m + 1, Len(rows)))

\* line 125: the lambda applied to topic_id
StatusOf(topic_id) == IF topic_id = -1 THEN "No Topic" ELSE "Topic Exists"
RECURSIVE SumCounts(_)
SumCounts(rows) == IF rows = <<>> THEN 0 ELSE Head(rows).count + SumCounts(Tail(rows))
\* line 126: groupby("topic_status", as_index=False)["count"].sum(), one row
\* for each status that occurs, in the order of the keys
GroupByStatus(rows) ==
    LET of(st) == SelectSeq2(rows, [i \in 1..Len(rows) |-> StatusOf(rows[i].topic_id) = st])
        row(st) == IF of(st) = <<>> THEN <<>>
                   ELSE <<[topic_status |-> st, count |-> SumCounts(of(st))]>>
    IN row("No Topic") \o row("Topic Exists")

InitDashboard ==
    /\ \E n \in 0..MaxTopics : \E c \in [1..n -> Counts], sp \in 0..n :
           df_topics = TopicTable(n, c, sp)
    /\ topic_status = <<>>
    /\ df_topics_count = <<>> /\ df_status = <<>>
    /\ dash_rendered = FALSE
    /\ InitProcIdle
    /\ InitExplorerIdle

\* Lines 88-145 on the cached table df_topics: the top-10 frame is made from a
\* copy; the column topic_status is assigned on df_topics itself and stays.
RenderDashboard ==
    /\ df_topics_count' = NLargest(TOP_N, DropNoTopic(df_topics))
    /\ topic_status' = [i \in 1..Len(df_topics) |-> StatusOf(df_topics[i].topic_id)]
    /\ df_status' = GroupByStatus(df_topics)
    /\ dash_rendered' = TRUE
    /\ UNCHANGED <<df_topics, procVars, explVars>>

NextDashboard == RenderDashboard

SpecDashboard == InitDashboard /\ [][NextDashboard]_vars

\* ---------------------------------------------------------------------
\* Claim about the dashboard (checked under SpecDashboard)
\* ---------------------------------------------------------------------
TopicRows == {df_topics[i] : i \in 1..Len(df_topics)}
Top10Rows == {df_topics_count[i] : i \in 1..Len(df_topics_count)}

\* C8: the "top 10 topics" selection holds no row of topic id -1, has at most
\* 10 rows, all of them different rows of the table, holds the rows of the
\* highest counts among the rows with a topic, and lists them in descending
\* order of count.
C8_Top10Topics ==
    dash_rendered =>
        /\ \A r \in Top10Rows : r.topic_id # -1
        /\ Len(df_topics_count) <= 10
        /\ Top10Rows \subseteq TopicRows
        /\ Cardinality(Top10Rows) = Len(df_topics_count)
        /\ \A r \in Top10Rows, q \in TopicRows \ Top10Rows :
               q.topic_id # -1 => q.count <= r.count
        /\ \A q \in TopicRows \ Top10Rows :
               q.topic_id # -1 => Len(df_topics_count) = 10
        /\ \A i, j \in 1..Len(df_topics_count) :
               i < j => df_topics_count[i].count >= df_topics_count[j].count

\* a table with the no-topic row on top by count and more than 10 topics of
\* two different counts, rendered
C8_Witness ==
    /\ dash_rendered
    /\ \E r \in TopicRows : r.topic_id = -1 /\ r.count = 2
    /\ Len(df_topics) >= 12
    /\ Len(df_topics_count) = 10
    /\ df_topics_count[1].count > df_topics_count[10].count

====
